---- MODULE Spec2Model ----
(***************************************************************************)
(* Password Strength Analyzer (password_analyzer.cpp).                     *)
(*                                                                         *)
(* One PasswordAnalyzer object is constructed and run(): promptPassword    *)
(* reads a line from cin (retrying while cin.fail()), then                 *)
(* computeNumCombinations scans the password into seven character-type     *)
(* flags and raises the summed weights to the password's length,           *)
(* computeNumBits takes floor(log(numCombinations) / log(2)), and          *)
(* operator<< prints both values.                                          *)
(*                                                                         *)
(* Characters are their codes 0..127 (C locale).  A long double is x87     *)
(* extended precision: every integer below 2^64 is represented exactly and *)
(* a value of magnitude 2^16384 or more is +infinity.                      *)
(***************************************************************************)
EXTENDS Integers, Sequences, FiniteSets, TLC

VARIABLES
    pc,               \* position of main/run: "start", "retry" (in the loop of
                      \* promptPassword), "acquired", "combined", "bits",
                      \* "reported", "exited"
    password,         \* PasswordAnalyzer::password, a sequence of codes
    numCombinations,  \* PasswordAnalyzer::numCombinations, a long double
    numBits,          \* PasswordAnalyzer::numBits, an int
    charTypes,        \* bool charTypes[7] of computeNumCombinations
    cinFail,          \* cin's failbit
    cinEof,           \* cin's eofbit
    stdinEnded,       \* the input source is permanently at end of input
    lastRead,         \* how the last getline ended
    prompts,          \* number of prompts written to cout (saturating)
    promptsOdd,       \* whether the number of prompts written is odd
    errs,             \* number of error messages written to cout (saturating)
    report,           \* the lines operator<< wrote to cout
    exitCode          \* main's return value, -1 while running

vars == <<pc, password, numCombinations, numBits, charTypes, cinFail, cinEof,
          stdinEnded, lastRead, prompts, promptsOdd, errs, report, exitCode>>

----------------------------------------------------------------------------
(* Bounds of the model *)

\* longest line drawn character by character
MaxLen == 3

\* the counters of prompts and error messages stop counting here
MaxRetries == 2

\* length of the long lines of SpecLong
LongLen == 2800

----------------------------------------------------------------------------
(* Program constants *)

NUMBERS == 10
LOWERCASE == 26
UPPERCASE == 26
SYMBOLS == 32
SPACE == 1
TAB == 1
\* OTHER of the source (a reserved word here)
OTHER_ == 1

\* long double: values of 2^LDBL_MAX_EXP and above are +infinity
LDBL_MAX_EXP == 16384

\* int: the largest value; the smallest is -INT_MAX - 1
INT_MAX == 2147483647

INT_MIN == -INT_MAX - 1

\* representative character codes: tab, space, '!', '0', 'A', 'a', DEL
Chars == {9, 32, 33, 48, 65, 97, 127}

----------------------------------------------------------------------------
(* long double values *)

Finite(n) == [cls |-> "finite", val |-> n]

Inf == [cls |-> "inf", val |-> 0]

IsInf(x) == x.cls = "inf"

----------------------------------------------------------------------------
(* <cctype> in the C locale *)

isdigit(c) == c >= 48 /\ c <= 57

islower(c) == c >= 97 /\ c <= 122

isupper(c) == c >= 65 /\ c <= 90

\* a printing character other than space that is neither digit nor letter
ispunct(c) == c > 32 /\ c < 127 /\ ~isdigit(c) /\ ~islower(c) /\ ~isupper(c)

\* the chain with isspace() in place of the comparison with ' ': a tab is
\* taken for a space
CharTypeIndexIsSpace(c) ==
    IF isdigit(c) THEN 0
    ELSE IF islower(c) THEN 1
    ELSE IF isupper(c) THEN 2
    ELSE IF ispunct(c) THEN 3
    ELSE IF c = 32 \/ (c >= 9 /\ c <= 13) THEN 4
    ELSE IF c = 9 THEN 5
    ELSE 6

\* the if / else-if chain of the scan: the index of charTypes a character sets
CharTypeIndex(c) ==
    IF isdigit(c) THEN 0
    ELSE IF islower(c) THEN 1
    ELSE IF isupper(c) THEN 2
    ELSE IF ispunct(c) THEN 3
    ELSE IF c = 32 THEN 4
    ELSE IF c = 9 THEN 5
    ELSE 6

NoCharTypes == [k \in 0..6 |-> FALSE]

B2I(b) == IF b THEN 1 ELSE 0

\* an iteration whose chain lacks the final else
ScanStepNoElse(ct, c) ==
    IF CharTypeIndex(c) = 6 THEN ct ELSE [ct EXCEPT ![CharTypeIndex(c)] = TRUE]

\* an iteration that clears the flags found so far
ScanStepOverwrite(ct, c) == [NoCharTypes EXCEPT ![CharTypeIndex(c)] = TRUE]

\* the sum with the weight of the symbols taken for that of the letters
AlphabetSizeLetters(ct) ==
    (B2I(ct[0]) * NUMBERS) + (B2I(ct[1]) * LOWERCASE)
  + (B2I(ct[2]) * UPPERCASE) + (B2I(ct[3]) * LOWERCASE)
  + (B2I(ct[4]) * SPACE) + (B2I(ct[5]) * TAB)
  + (B2I(ct[6]) * OTHER_)

\* one iteration of the scan loop
ScanStep(ct, c) == [ct EXCEPT ![CharTypeIndex(c)] = TRUE]

\* the for loop over the password, from charTypes = {0}: Run[lo, hi, ct] is
\* ct after the iterations for the characters lo..hi, taken in index order
\* (the range is split in two so that a long password nests shallowly)
Scan(pw) ==
    LET Run[lo \in Nat, hi \in Nat, ct \in [0..6 -> BOOLEAN]] ==
            IF lo > hi THEN ct
            ELSE IF lo = hi THEN ScanStep(ct, pw[lo])
            ELSE Run[((lo + hi) \div 2) + 1, hi, Run[lo, (lo + hi) \div 2, ct]]
    IN  Run[1, Len(pw), NoCharTypes]

\* the weighted sum of the flags
AlphabetSize(ct) ==
    (B2I(ct[0]) * NUMBERS) + (B2I(ct[1]) * LOWERCASE)
  + (B2I(ct[2]) * UPPERCASE) + (B2I(ct[3]) * SYMBOLS)
  + (B2I(ct[4]) * SPACE) + (B2I(ct[5]) * TAB)
  + (B2I(ct[6]) * OTHER_)

----------------------------------------------------------------------------
(* <cmath> *)

RECURSIVE IntPower(_, _)
IntPower(x, y) == IF y = 0 THEN 1 ELSE x * IntPower(x, y - 1)

RECURSIVE FloorLog2(_)
FloorLog2(x) == IF x < 2 THEN 0 ELSE 1 + FloorLog2(x \div 2)

\* a power that is 0 for base 0 whatever the exponent
powZeroBase(x, y) ==
    IF x = 0 THEN Finite(0)
    ELSE IF y = 0 \/ x = 1 THEN Finite(1)
    ELSE IF y * FloorLog2(x) >= LDBL_MAX_EXP THEN Inf
    ELSE Finite(IntPower(x, y))

\* pow(long double x, size_t y) for an integer x >= 0.  pow(x, 0) is 1 for
\* every x, 0 included.  x^y >= 2^(y * floor(log2 x)), so the result is
\* +infinity when that exponent reaches LDBL_MAX_EXP; otherwise the result
\* is the exact power (the lines of the model keep a finite result an
\* integer below 2^64, which a long double holds exactly).
pow(x, y) ==
    IF y = 0 THEN Finite(1)
    ELSE IF x < 2 THEN Finite(x)
    ELSE IF y * FloorLog2(x) >= LDBL_MAX_EXP THEN Inf
    ELSE Finite(IntPower(x, y))

\* below this many bits the quotient log(c) / log(2) cannot reach the next
\* integer: see FloorLogQuotient
QuotientExactBits == 48

\* a quotient that falls just below log2(c): an exact power of two loses a bit
FloorLogQuotientBelow(c) ==
    IF IsInf(c) \/ c.val = 0 THEN {INT_MIN, INT_MAX}
    ELSE LET b == FloorLog2(c.val)
         IN  IF c.val > 1 /\ IntPower(2, b) = c.val THEN {b - 1} ELSE {b}

\* floor(log(c) / log(2)) converted to int, as the set of values a build can
\* produce.  log(c) is the long double logarithm, log(2) the double one; the
\* double nearest ln 2 lies below ln 2 by a relative 2^-54.7, far more than
\* the long double roundings (2^-63), so the quotient is log2(c) * (1 + r)
\* with 0 < r < 2^-54: never below log2(c), and below the next integer
\* whenever c < 2^QuotientExactBits (c <= 2^(b+1) - 1 leaves a gap of more
\* than 2^-(b+1) to b + 1).  log(1) is exactly 0.  For +infinity the quotient
\* is +infinity and for 0 it is -infinity, whose conversion to int is
\* undefined: INT_MIN on x86, INT_MAX where the conversion saturates.
FloorLogQuotient(c) ==
    IF IsInf(c) THEN {INT_MIN, INT_MAX}
    ELSE IF c.val = 0 THEN {INT_MIN, INT_MAX}
    ELSE LET b == FloorLog2(c.val)
         IN  IF b + 1 <= QuotientExactBits THEN {b} ELSE {b, b + 1}

----------------------------------------------------------------------------
(* <iostream> *)

RECURSIVE DecimalDigits(_)
DecimalDigits(n) ==
    IF n < 10 THEN <<n>> ELSE Append(DecimalDigits(n \div 10), n % 10)

\* a long double written with ios::fixed and precision 0
FixedText(x) ==
    IF IsInf(x) THEN [text |-> "inf", digits |-> <<>>]
    ELSE [text |-> "digits", digits |-> DecimalDigits(x.val)]

Inc(n, cap) == IF n < cap THEN n + 1 ELSE cap

\* every line of at most n characters
RECURSIVE LinesUpTo(_)
LinesUpTo(n) ==
    IF n = 0 THEN {<<>>}
    ELSE LET shorter == LinesUpTo(n - 1)
             longest == {t \in shorter : Len(t) = n - 1}
         IN  shorter \cup {Append(s, c) : s \in longest, c \in Chars}

\* the line "aA1!", which holds a digit, both cases and a symbol
ScenarioLines == { <<97, 65, 49, 33>> }

ShortLines == LinesUpTo(MaxLen) \cup ScenarioLines

\* lines of LongLen characters that repeat a few characters
LongMotifs == { <<97, 65, 48, 33>>, <<97, 65, 48, 33, 32>>,
                <<97, 65, 48, 33, 9, 127>> }

LongLines ==
    { [i \in 1..LongLen |-> m[((i - 1) % Len(m)) + 1]] : m \in LongMotifs }

\* getline(cin, password) on a stream that is good(), reading from a source
\* offering the lines L: the characters up to a newline, up to the end of
\* input, or no character at all before the end of input (failbit).
GetLine(L) ==
    \/ \E s \in L :
          /\ ~stdinEnded
          /\ password' = s
          /\ lastRead' = "line"
          /\ UNCHANGED <<cinEof, stdinEnded>>
          /\ cinFail' = FALSE
    \/ \E s \in L \ {<<>>} :
          /\ ~stdinEnded
          /\ password' = s
          /\ lastRead' = "partial"
          /\ cinEof' = TRUE
          /\ cinFail' = FALSE
          /\ stdinEnded' \in BOOLEAN
    \/ /\ password' = <<>>
       /\ lastRead' = "eof"
       /\ cinEof' = TRUE
       /\ cinFail' = TRUE
       /\ stdinEnded' \in (IF stdinEnded THEN {TRUE} ELSE BOOLEAN)

\* getline on a stream that is not good(): the sentry sets failbit and the
\* string is left as it is
GetLineRefused ==
    /\ lastRead' = "refused"
    /\ cinEof' = TRUE
    /\ cinFail' = TRUE
    /\ UNCHANGED password

\* a test of cin.bad() in place of cin.fail(): no end of input is retried
AfterReadBad(fail) == "acquired"

\* the while (cin.fail()) test that follows every getline
AfterRead(fail) == IF fail THEN "retry" ELSE "acquired"

----------------------------------------------------------------------------
(* The program *)

Init ==
    /\ pc = "start"
    /\ password = <<>>
    /\ numCombinations = Finite(0)
    /\ numBits = 0
    /\ charTypes = NoCharTypes
    /\ cinFail = FALSE
    /\ cinEof = FALSE
    /\ stdinEnded = FALSE
    /\ lastRead = "none"
    /\ prompts = 0
    /\ promptsOdd = FALSE
    /\ errs = 0
    /\ report = <<>>
    /\ exitCode = -1

\* promptPassword up to the loop test: the prompt and the first getline
PromptPassword(L) ==
    /\ pc = "start"
    /\ prompts' = Inc(prompts, MaxRetries + 1)
    /\ promptsOdd' = ~promptsOdd
    /\ GetLine(L)
    /\ pc' = AfterRead(cinFail')
    /\ UNCHANGED <<numCombinations, numBits, charTypes, errs, report, exitCode>>

\* one iteration of the while (cin.fail()) loop: clear, ignore, the error
\* message, the prompt and getline.  ignore() meets the end of input (eofbit)
\* or discards up to 80 characters through a newline.
RetryRead(L) ==
    /\ pc = "retry"
    /\ cinFail
    /\ errs' = Inc(errs, MaxRetries)
    /\ prompts' = Inc(prompts, MaxRetries + 1)
    /\ promptsOdd' = ~promptsOdd
    /\ \/ /\ stdinEnded
          /\ GetLineRefused
          /\ UNCHANGED stdinEnded
       \/ /\ ~stdinEnded
          /\ GetLineRefused
          /\ stdinEnded' \in BOOLEAN
       \/ /\ ~stdinEnded
          /\ GetLine(L)
    /\ pc' = AfterRead(cinFail')
    /\ UNCHANGED <<numCombinations, numBits, charTypes, report, exitCode>>

ComputeNumCombinations ==
    /\ pc = "acquired"
    /\ charTypes' = Scan(password)
    /\ numCombinations' = pow(AlphabetSize(charTypes'), Len(password))
    /\ pc' = "combined"
    /\ UNCHANGED <<password, numBits, cinFail, cinEof, stdinEnded, lastRead,
                   prompts, promptsOdd,
                   errs, report, exitCode>>

\* the quotient stored back into numCombinations before it is floored
ComputeNumBitsInPlace ==
    /\ pc = "combined"
    /\ numBits' \in FloorLogQuotient(numCombinations)
    /\ numCombinations' = Finite(IF numBits' < 0 THEN 0 ELSE numBits')
    /\ pc' = "bits"
    /\ UNCHANGED <<password, charTypes, cinFail, cinEof,
                   stdinEnded, lastRead, prompts, promptsOdd,
                   errs, report, exitCode>>

ComputeNumBits ==
    /\ pc = "combined"
    /\ numBits' \in FloorLogQuotient(numCombinations)
    /\ pc' = "bits"
    /\ UNCHANGED <<password, numCombinations, charTypes, cinFail, cinEof,
                   stdinEnded, lastRead, prompts, promptsOdd,
                   errs, report, exitCode>>

\* cout << *this
Output ==
    /\ pc = "bits"
    /\ report' =
          << [line |-> "combinations", value |-> FixedText(numCombinations)],
             [line |-> "bits", value |-> numBits] >>
    /\ pc' = "reported"
    /\ UNCHANGED <<password, numCombinations, numBits, charTypes, cinFail,
                   cinEof, stdinEnded, lastRead, prompts, promptsOdd,
                   errs, exitCode>>

\* main's return 0
Exit ==
    /\ pc = "reported"
    /\ exitCode' = 0
    /\ pc' = "exited"
    /\ UNCHANGED <<password, numCombinations, numBits, charTypes, cinFail,
                   cinEof, stdinEnded, lastRead, prompts, promptsOdd,
                   errs, report>>

PromptShort == PromptPassword(ShortLines)

RetryShort == RetryRead(ShortLines)

PromptLong == PromptPassword(LongLines)

RetryLong == RetryRead(LongLines)

Next ==
    \/ PromptShort
    \/ RetryShort
    \/ ComputeNumCombinations
    \/ ComputeNumBits
    \/ Output
    \/ Exit

NextLong ==
    \/ PromptLong
    \/ RetryLong
    \/ ComputeNumCombinations
    \/ ComputeNumBits
    \/ Output
    \/ Exit

\* runs on lines of at most MaxLen characters
Spec == Init /\ [][Next]_vars

\* the same runs; the process keeps running until main returns
FairSpec == Init /\ [][Next]_vars /\ WF_vars(Next)

\* runs on lines of LongLen characters
SpecLong == Init /\ [][NextLong]_vars

----------------------------------------------------------------------------
(* Properties *)

AfterPrompt == {"acquired", "combined", "bits", "reported", "exited"}

AfterCombined == {"combined", "bits", "reported", "exited"}

AfterBits == {"bits", "reported", "exited"}

AfterReport == {"reported", "exited"}

\* the codes of each category, index as in charTypes (ASCII)
CategoryCodes(k) ==
    CASE k = 0 -> 48..57
      [] k = 1 -> 97..122
      [] k = 2 -> 65..90
      [] k = 3 -> (33..47) \cup (58..64) \cup (91..96) \cup (123..126)
      [] k = 4 -> {32}
      [] k = 5 -> {9}
      [] k = 6 -> (0..8) \cup (10..31) \cup {127}

CategoryWeight(k) ==
    CASE k = 0 -> 10 [] k = 1 -> 26 [] k = 2 -> 26 [] k = 3 -> 32
      [] k = 4 -> 1 [] k = 5 -> 1 [] k = 6 -> 1

\* the categories that have a character in pw
CategoriesIn(pw) ==
    {k \in 0..6 : \E i \in 1..Len(pw) : pw[i] \in CategoryCodes(k)}

RECURSIVE SumOfWeights(_)
SumOfWeights(S) ==
    IF S = {} THEN 0
    ELSE LET k == CHOOSE x \in S : TRUE
         IN  CategoryWeight(k) + SumOfWeights(S \ {k})

\* n multiplied once for every position of pw
ProductOver(pw, n) ==
    LET P[i \in 0..Len(pw)] == IF i = 0 THEN 1 ELSE n * P[i - 1]
    IN  P[Len(pw)]

\* pw with its characters permuted in every way
PermutationsOf(pw) ==
    LET n == Len(pw)
        OneToOne(g) == \A a, b \in 1..n : g[a] = g[b] => a = b
    IN  { [i \in 1..n |-> pw[f[i]]] :
            f \in {g \in [1..n -> 1..n] : OneToOne(g)} }

\* C1: every code 0..127 belongs to exactly one of the seven categories, the
\* one the scan's chain picks, and after the scan a flag is set if and only
\* if some character of the password belongs to its category.
C1_FlagsMatchCategories ==
    /\ pc = "start" =>
          \A c \in 0..127 :
             /\ Cardinality({k \in 0..6 : c \in CategoryCodes(k)}) = 1
             /\ c \in CategoryCodes(CharTypeIndex(c))
    /\ pc \in AfterCombined =>
          \A k \in 0..6 :
             charTypes[k] <=> \E i \in 1..Len(password) :
                                 password[i] \in CategoryCodes(k)

\* a scanned password with a lowercase letter, a tab and a symbol
C1_Witness ==
    /\ pc = "combined"
    /\ password = <<97, 9, 33>>
    /\ charTypes = [k \in 0..6 |-> k \in {1, 3, 5}]

C4_EmptyInput ==
    /\ (pc \in AfterCombined /\ password = <<>>) =>
          /\ AlphabetSize(charTypes) = 0
          /\ numCombinations = Finite(1)
    /\ (pc \in AfterBits /\ password = <<>>) => numBits = 0
    /\ (pc \in AfterReport /\ password = <<>>) =>
          /\ report[1].value = [text |-> "digits", digits |-> <<1>>]
          /\ report[2].value = 0
    /\ lastRead = "line" => (~cinFail /\ pc # "retry")

\* a run on the empty line, read at the first attempt, that has exited
C4_Witness ==
    /\ pc = "exited"
    /\ password = <<>>
    /\ lastRead = "line"
    /\ errs = 0
    /\ prompts = 1
    /\ Len(report) = 2

\* C5: when the combination count has saturated to +infinity the report is
\* the DegenerateResult one: no line shows the count or a bit count.
C5_SaturationReportedDegenerate ==
    (pc \in AfterReport /\ IsInf(numCombinations)) =>
       \A i \in 1..Len(report) : report[i].line \notin {"combinations", "bits"}

\* C6: when computeNumBits is entered the combination count is at least 1;
\* the sum of the weights is 0 only for the empty password.
C6_CountIsPositive ==
    pc = "combined" =>
       /\ IsInf(numCombinations) \/ numCombinations.val >= 1
       /\ AlphabetSize(charTypes) = 0 => Len(password) = 0
       /\ Len(password) > 0 => AlphabetSize(charTypes) >= 1

\* a password of one character of the category "other"
C6_Witness ==
    /\ pc = "combined"
    /\ password = <<127>>
    /\ numCombinations = Finite(1)

\* C7: a read that leaves the stream failed is followed by the retry (error
\* message, prompt, another read) and by nothing else; promptPassword is left
\* only after a read that left the stream not failed.
C7_Step ==
    /\ pc' \in AfterPrompt => ~cinFail'
    /\ (pc \in {"start", "retry"} /\ cinFail') => pc' = "retry"
    /\ pc = "retry" =>
          /\ cinFail
          /\ errs' = Inc(errs, MaxRetries)
          /\ prompts' = Inc(prompts, MaxRetries + 1)
          /\ promptsOdd' = ~promptsOdd
          /\ lastRead' \in {"line", "partial", "eof", "refused"}
          /\ lastRead' \in {"line", "partial"} =>
                (~cinFail' /\ pc' = "acquired")
          /\ UNCHANGED <<numCombinations, numBits, charTypes, report, exitCode>>
    /\ cinFail => pc = "retry"

C7_RetryWhileFailed == [][C7_Step]_vars

\* a password acquired by a retry after a failed read
C7_Witness ==
    /\ pc = "acquired"
    /\ errs = 1
    /\ prompts = 2
    /\ ~cinFail
    /\ password = <<97>>

\* C8: once the input is permanently at its end the run still exits.
C8_EndedInputRunExits == [](stdinEnded => <>(pc = "exited"))

\* C9: every permutation of the password has the same flags, the same
\* combination count and the same bit count.
C9_PermutationInvariant ==
    pc = "bits" =>
       \A q \in PermutationsOf(password) :
          /\ Scan(q) = charTypes
          /\ pow(AlphabetSize(Scan(q)), Len(q)) = numCombinations
          /\ FloorLogQuotient(pow(AlphabetSize(Scan(q)), Len(q))) = {numBits}

\* a password of three characters of three categories
C9_Witness ==
    /\ pc = "bits"
    /\ password = <<97, 48, 33>>
    /\ numCombinations = Finite(314432)

\* C10: the phases follow one another in the fixed order, and each value is
\* left alone once its phase is over.
PhaseOrder ==
    { <<"start", "retry">>, <<"start", "acquired">>, <<"retry", "retry">>,
      <<"retry", "acquired">>, <<"acquired", "combined">>,
      <<"combined", "bits">>, <<"bits", "reported">>, <<"reported", "exited">> }

C10_Step ==
    /\ <<pc, pc'>> \in PhaseOrder
    /\ pc \in AfterPrompt => password' = password
    /\ pc \in AfterCombined =>
          (numCombinations' = numCombinations /\ charTypes' = charTypes)
    /\ pc \in AfterBits => numBits' = numBits
    /\ pc # "bits" => report' = report

C10_PhasesInOrder == [][C10_Step]_vars

\* a run that went through every phase
C10_Witness ==
    /\ pc = "exited"
    /\ exitCode = 0
    /\ password = <<65, 48>>
    /\ numBits = 10
    /\ report[2].value = 10

====
